---- MODULE Spec2Model ----
(***************************************************************************)
(* Financial document analyzer: the intake API (main.py), the job store    *)
(* (models.py, db.py), the task queue (celery_app.py) and the worker task  *)
(* process_pdf_job (tasks_worker.py) with the analysis engine (task.py)    *)
(* and the text extraction adapter (tools.py).                             *)
(*                                                                         *)
(* The store holds committed rows only.  A worker invocation is two steps: *)
(* the load of the job row (session.get) and, after the analysis has run,  *)
(* the flush and commit of the session; other processes run in between.    *)
(*                                                                         *)
(* Spec and FairSpec are the service.  FnSpec calls the functions of the   *)
(* engine on their own (run_analysis, _mock_result, _extract_json_str,     *)
(* extract_text_from_pdf_bytes), one call per behaviour, on every argument *)
(* within the bounds.                                                      *)
(***************************************************************************)
EXTENDS Integers, FiniteSets, Sequences, TLC

\* ---------------------------------------------------------------- bounds
MaxJobs == 2
MaxSent == 2
\* words in a text handed to the mock analysis
MaxWords == 3
\* characters in the body of a blob handed to _extract_json_str
MaxBody == 4
\* pages of a document handed to extract_text_from_pdf_bytes
MaxPages == 2

Workers == {"w1", "w2"}
JobIds == 1..MaxJobs
\* an id no POST /analyze ever generated (uuid4 never collides with it)
UnknownJob == MaxJobs + 1
TaskIds == JobIds \cup {UnknownJob}

None == "None"
Emails == {"a@x.com"}

\* ------------------------------------------------- analysis engine (task.py)
MockConfidence == 65
FewShotConfidence == 72
MaxConfidence == 100

Actions == {"buy", "hold", "sell"}

\* a document: whether any extraction capability can read it, and the two
\* keyword facts of its lower-cased text
Docs ==
  { [extractable |-> FALSE, growth |-> FALSE, margin |-> FALSE],
    [extractable |-> TRUE, growth |-> TRUE, margin |-> TRUE] }

\* what the live model call yields: an API failure, or a response carrying a
\* recommendation
CallFailed == [kind |-> "callfailed", action |-> None, confidence |-> 0]
Replies ==
  { CallFailed,
    [kind |-> "reply", action |-> "hold", confidence |-> FewShotConfidence],
    [kind |-> "reply", action |-> "strong_buy", confidence |-> FewShotConfidence],
    [kind |-> "reply", action |-> "buy", confidence |-> MaxConfidence + 1] }

ExtractionMsg ==
  "PDF extraction requires pypdf (recommended) or pdfplumber. Install with: pip install pypdf pdfplumber"
ApiError == "api error"
ValidationError == "validation error"
\* f"Model call failed: {e}"
ModelCallFailedMsg(inner) ==
  IF inner = ApiError THEN "Model call failed: api error"
  ELSE "Model call failed: validation error"

\* the null result
NoResult == [action |-> None, confidence |-> 0]
Ok(result) == [ok |-> TRUE, result |-> result, msg |-> None]
Raise(msg) == [ok |-> FALSE, result |-> NoResult, msg |-> msg]

\* tools.py: raises only when both capabilities fail entirely
extract_text_from_pdf_bytes(doc) ==
  IF doc.extractable THEN Ok(doc) ELSE Raise(ExtractionMsg)

\* mutant: a margin keyword alone already gives hold
_mock_result_margin_alone(doc) ==
  [action |-> IF doc.growth /\ doc.margin THEN "buy"
              ELSE IF doc.growth \/ doc.margin THEN "hold" ELSE "sell",
   confidence |-> MockConfidence]

\* ------------------------------------------------ text extraction (tools.py)
\* a code point UTF-8 cannot encode (a lone surrogate)
Surrogate == "surrogate"
Newline == "newline"

\* str.join
RECURSIVE join(_, _)
join(sep, chunks) ==
  IF chunks = << >> THEN << >>
  ELSE IF Len(chunks) = 1 THEN chunks[1]
  ELSE chunks[1] \o <<sep>> \o join(sep, Tail(chunks))

\* line 53: text.encode("utf-8", errors="replace").decode("utf-8")
normalize(text) ==
  [i \in 1..Len(text) |-> IF text[i] = Surrogate THEN "?" ELSE text[i]]

\* lines 22-27 and 37-42: page.extract_text() or "", "" when it raises
page_text(page) == IF page.kind = "text" THEN page.text ELSE << >>

\* lines 19-28 and 34-43: one capability on the document; opened is FALSE
\* when the import, the open or the page count raises
capability(cap) ==
  [ok |-> cap.opened,
   pages |-> IF cap.opened THEN Len(cap.pages) ELSE 0,
   text |-> IF cap.opened
            THEN join(Newline, [i \in 1..Len(cap.pages) |-> page_text(cap.pages[i])])
            ELSE << >>]

\* mutant: a page that raises is dropped from the chunks
pdf_extraction_drop_failed(primary, fallback) ==
  LET kept(cap) == [cap EXCEPT !.pages = SelectSeq(@, LAMBDA page : page.kind # "raise")]
      a == capability(kept(primary))
      b == capability(kept(fallback))
      used == IF a.ok THEN a ELSE b
  IN [raised |-> ~a.ok /\ ~b.ok,
      tried |-> IF a.ok THEN <<"pypdf">> ELSE <<"pypdf", "pdfplumber">>,
      text |-> normalize(used.text),
      pages |-> Len(IF a.ok THEN primary.pages ELSE fallback.pages)]

\* tools.py extract_text_from_pdf_bytes on what each capability does with the
\* document: pypdf first, pdfplumber when pypdf fails as a whole, RuntimeError
\* when both do
pdf_extraction(primary, fallback) ==
  LET a == capability(primary)
      b == capability(fallback)
      used == IF a.ok THEN a ELSE b
  IN [raised |-> ~a.ok /\ ~b.ok,
      tried |-> IF a.ok THEN <<"pypdf">> ELSE <<"pypdf", "pdfplumber">>,
      text |-> normalize(used.text),
      pages |-> used.pages]

\* task.py _mock_result, lines 174 and 183-187, on the two keyword facts
_mock_result(doc) ==
  [action |-> IF doc.growth /\ doc.margin THEN "buy"
              ELSE IF doc.growth THEN "hold" ELSE "sell",
   confidence |-> MockConfidence]

\* a text is a sequence of characters; str.lower on the letters in use
lower_char(c) ==
  CASE c = "G" -> "g" [] c = "U" -> "u" [] c = "P" -> "p" [] c = "M" -> "m"
    [] c = "B" -> "b" [] c = "S" -> "s" [] OTHER -> c
lower(text) == [i \in 1..Len(text) |-> lower_char(text[i])]

\* k in t
contains(t, k) ==
  \E i \in 1..(Len(t) - Len(k) + 1) : SubSeq(t, i, i + Len(k) - 1) = k

\* line 172
GrowthKeywords ==
  { <<"i", "n", "c", "r", "e", "a", "s", "e">>,
    <<"g", "r", "e", "w">>,
    <<"u", "p", " ">>,
    <<"g", "r", "o", "w", "t", "h">>,
    <<"h", "i", "g", "h", "e", "r">> }
\* line 173
MarginKeywords ==
  { <<"m", "a", "r", "g", "i", "n">>,
    <<"b", "p", "s">> }

\* lines 171-173: the keyword facts of a text
keyword_facts(text) ==
  LET t == lower(text)
  IN [extractable |-> TRUE,
      growth |-> \E k \in GrowthKeywords : contains(t, k),
      margin |-> \E k \in MarginKeywords : contains(t, k)]

\* lines 170-207: the AnalysisResult built from a text
mock_analysis(text) ==
  LET facts == keyword_facts(text)
  IN [recommendation |-> _mock_result(facts),
      risks |-> <<"Data completeness">>,
      insights |-> << IF facts.growth THEN "Growth keywords detected."
                      ELSE "No clear growth signals detected." >>]

\* str.strip(chars): leading and trailing characters of cs removed
RECURSIVE lstrip(_, _)
lstrip(s, cs) ==
  IF s # << >> /\ Head(s) \in cs THEN lstrip(Tail(s), cs) ELSE s
RECURSIVE rstrip(_, _)
rstrip(s, cs) ==
  IF s # << >> /\ s[Len(s)] \in cs THEN rstrip(SubSeq(s, 1, Len(s) - 1), cs)
  ELSE s
strip(s, cs) == rstrip(lstrip(s, cs), cs)
Whitespace == {" "}
\* the backquote character
Backtick == "bq"

\* str.find: the first index of c in s, 0 for Python's -1
find(s, c) ==
  IF \E i \in 1..Len(s) : s[i] = c
  THEN CHOOSE i \in 1..Len(s) : s[i] = c /\ \A j \in 1..(i - 1) : s[j] # c
  ELSE 0

\* task.py lines 61-82: the loop of _extract_json_str from index i on
RECURSIVE json_scan(_, _, _, _, _, _)
json_scan(s, start, i, depth, in_str, esc) ==
  IF i > Len(s) THEN s
  ELSE LET ch == s[i]
       IN IF in_str
          THEN IF esc THEN json_scan(s, start, i + 1, depth, TRUE, FALSE)
               ELSE IF ch = "\\" THEN json_scan(s, start, i + 1, depth, TRUE, TRUE)
               ELSE IF ch = "\"" THEN json_scan(s, start, i + 1, depth, FALSE, esc)
               ELSE json_scan(s, start, i + 1, depth, TRUE, esc)
          ELSE IF ch = "\"" THEN json_scan(s, start, i + 1, depth, TRUE, esc)
               ELSE IF ch = "{" THEN json_scan(s, start, i + 1, depth + 1, FALSE, esc)
               ELSE IF ch = "}"
                    THEN IF depth - 1 = 0
                         THEN strip(strip(strip(SubSeq(s, start, i), Whitespace),
                                          {Backtick}), Whitespace)
                         ELSE json_scan(s, start, i + 1, depth - 1, FALSE, esc)
               ELSE json_scan(s, start, i + 1, depth, FALSE, esc)

\* lines 55-57: trimmed, and without the fence when it starts with one
unfenced(raw) ==
  LET s == strip(raw, Whitespace)
  IN IF Len(s) >= 3 /\ SubSeq(s, 1, 3) = <<Backtick, Backtick, Backtick>>
     THEN strip(strip(s, {Backtick}), Whitespace)
     ELSE s

\* mutant: from the first opening brace to the last closing brace
_extract_json_str_greedy(raw) ==
  LET s == unfenced(raw)
      closing == {i \in 1..Len(s) : s[i] = "}"}
  IN IF find(s, "{") = 0 \/ closing = {} THEN s
     ELSE SubSeq(s, find(s, "{"), CHOOSE i \in closing : \A j \in closing : j <= i)

\* task.py _extract_json_str
_extract_json_str(raw) ==
  LET s == unfenced(raw)
      start == find(s, "{")
  IN IF start = 0 THEN s ELSE json_scan(s, start, start, 0, FALSE, FALSE)

\* pydantic Recommendation: action is a Literal, confidence is conint(0..100)
model_validate_json(reply) ==
  reply.action \in Actions /\ reply.confidence \in 0..MaxConfidence

\* task.py _llm_analyze_financials; mock is MOCK_LLM == "1".  The fallback in
\* the except branch re-reads the same flag, which is off on that path.
_llm_analyze_financials(doc, mock, reply) ==
  IF mock THEN Ok(_mock_result(doc))
  ELSE IF reply.kind = "callfailed" THEN Raise(ModelCallFailedMsg(ApiError))
  ELSE IF ~model_validate_json(reply) THEN Raise(ModelCallFailedMsg(ValidationError))
  ELSE Ok([action |-> reply.action, confidence |-> reply.confidence])

\* the optional CrewAI step: CREWAI_ENABLED is not "1", or it is and the
\* import and crew.kickoff return, or it is and one of them raises
CrewModes == {"off", "ok", "fail"}
CrewMsg == "crew error"

\* task.py run_analysis: the crew step runs between extraction and the model
\* call, outside any try/except, and its return value is dropped
run_analysis(doc, mock, reply, crew) ==
  LET ext == extract_text_from_pdf_bytes(doc)
  IN IF ~ext.ok THEN ext
     ELSE IF crew = "fail" THEN Raise(CrewMsg)
     ELSE _llm_analyze_financials(doc, mock, reply)

\* ------------------------------------------------------------------ state
VARIABLES
  users,      \* committed rows of table users: [id, email]
  jobs,       \* committed rows of table jobs, by primary key
  analyses,   \* committed rows of table analyses: [id, job_id, result, tx]
  queue,      \* task messages waiting in the broker, per job id
  sent,       \* task messages ever put on the broker
  responded,  \* job ids POST /analyze enqueued and answered {job_id, pending}
  worker,     \* per worker: position in process_pdf_job, the row it loaded
  req,        \* the request handler of POST /analyze that holds the thread;
              \* raced: a request with its email committed while it was reading
  reading,    \* requests of POST /analyze awaiting file.read(), per email: how
              \* many, and whether a request with that email has committed
              \* since they arrived
  last,       \* the last value handed back: an HTTP response or a task result
  arg,        \* the arguments of a call of one function of the engine
  out         \* what that call returned

vars ==
  <<users, jobs, analyses, queue, sent, responded, worker, req, reading, last,
    arg, out>>

NoRow == [status |-> "absent", error |-> None]
IdleWorker == [pc |-> "idle", job |-> UnknownJob, seen |-> NoRow]

\* an HTTP response with its status code
Http(op, code) ==
  [op |-> op, code |-> code, job |-> UnknownJob, fault |-> "none", ret |-> "none"]
\* HTTP 500 of a POST /analyze whose transaction raised exception exc; flushed
\* names what the transaction had flushed before: "user" (line 72) or "none"
StoreFailed(flushed, exc) ==
  [Http("POST", 500) EXCEPT !.fault = flushed, !.ret = exc]
\* what an invocation of process_pdf_job for job j handed to the queue: ret is
\* "ok", "error", "notfound", or the exception that left the task; fault is
\* the capability of the analysis that failed in it
TaskResult(j, fault, ret) ==
  [op |-> "task", code |-> 0, job |-> j, fault |-> fault, ret |-> ret]

\* no request of POST /analyze holds the thread
IdleRequest == [pc |-> "idle", job |-> UnknownJob, raced |-> FALSE]

\* no call of a function on its own
NoArg == [fn |-> "none"]
NoOut == [done |-> FALSE]

\* ids are fresh uuid4 strings, numbered here from 1; 0 is the null user_id
NewUserId == Cardinality(users) + 1
NewJobId == Cardinality(DOMAIN jobs) + 1
NewAnalysisId == Cardinality(analyses) + 1

Init ==
  /\ users = {}
  /\ jobs = << >>
  /\ analyses = {}
  /\ queue = [t \in TaskIds |-> 0]
  /\ sent = 0
  /\ responded = {}
  /\ worker = [w \in Workers |-> IdleWorker]
  /\ req = IdleRequest
  /\ reading = [e \in Emails \cup {None} |-> [n |-> 0, overtaken |-> FALSE]]
  /\ last = Http("none", 0)
  /\ arg = NoArg
  /\ out = NoOut

\* ------------------------------------------------------------ store (db.py)
\* the committed store as one value
Store == [users |-> users, jobs |-> jobs, analyses |-> analyses]

\* mutant: a failed commit keeps the job update it had flushed
session_scope_partial(pre, post, committed) ==
  IF committed THEN post ELSE [pre EXCEPT !.jobs = post.jobs]

\* mutant: a flushed user row survives the rollback
session_scope_keeps_user(pre, post, committed) ==
  IF committed THEN post ELSE [pre EXCEPT !.users = post.users]

\* mutant: the scope never commits
session_scope_nocommit(pre, post, committed) == pre

\* db.py session_scope: commit on success, roll back every write otherwise
session_scope(pre, post, committed) == IF committed THEN post ELSE pre

\* models.py: users.email is unique
EmailUnique(rows, email) == \A u \in rows : u.email # email

\* mutant: no unique constraint on analyses.job_id
JobIdNotUnique(rows, j) == TRUE

\* models.py: analyses.job_id is unique
JobIdUnique(rows, j) == \A a \in rows : a.job_id # j

\* ------------------------------------------------- POST /analyze (main.py)
\* mutant: user.id read before the flush that assigns it
user_id_unflushed(user) == IF user \in users THEN user.id ELSE 0

\* mutant: the lookup does not see the committed row
one_or_none_stale(rows, email) == {}

\* line 68: session.query(User).filter_by(email=email).one_or_none()
one_or_none(rows, email) == {u \in rows : u.email = email}

\* line 73: user_id = user.id
user_id_of(user) == user.id

\* requests in flight in the serving process
InFlight ==
  LET RECURSIVE Sum(_)
      Sum(es) == IF es = {} THEN 0
                 ELSE LET e == CHOOSE x \in es : TRUE
                      IN reading[e].n + Sum(es \ {e})
  IN Sum(DOMAIN reading) + (IF req.pc = "stored" THEN 1 ELSE 0)

\* lines 48-60: a request arrives and its handler awaits file.read(); this
\* await is the only point at which the serving process runs other handlers
analyze_financial_document_receive(email) ==
  /\ req.pc = "idle"
  /\ Cardinality(DOMAIN jobs) + InFlight < MaxJobs
  /\ sent + InFlight < MaxSent
  /\ reading' = [reading EXCEPT ![email].n = @ + 1]
  /\ UNCHANGED <<users, jobs, analyses, queue, sent, responded, worker, req,
                 last, arg, out>>

\* lines 61-87: the file is written, then one transaction upserts the user
\* and inserts the job row; an exception answers HTTP 500.  The handler is a
\* coroutine with no await from here to its return.
analyze_financial_document_store(email, storeOk) ==
  /\ req.pc = "idle"
  /\ reading[email].n > 0
  /\ LET found == one_or_none(users, email)
         insert == email # None /\ found = {}
         user == IF insert THEN [id |-> NewUserId, email |-> email]
                 ELSE CHOOSE u \in found \cup {[id |-> 0, email |-> None]} :
                        found # {} => u \in found
         user_id == IF email = None THEN 0 ELSE user_id_of(user)
         job == [status |-> "pending", error |-> None,
                 user_id |-> user_id, email |-> email]
         post == [users |-> IF insert THEN users \cup {user} ELSE users,
                  jobs |-> (NewJobId :> job) @@ jobs,
                  analyses |-> analyses]
         committed == storeOk /\ (insert => EmailUnique(users, email))
         db == session_scope(Store, post, committed)
     IN /\ users' = db.users
        /\ jobs' = db.jobs
        /\ analyses' = db.analyses
        /\ req' = IF committed
                  THEN [pc |-> "stored", job |-> NewJobId,
                        raced |-> reading[email].overtaken]
                  ELSE req
        /\ reading' =
             [reading EXCEPT ![email] =
                [n |-> @.n - 1,
                 overtaken |-> /\ @.n > 1
                               /\ email # None
                               /\ (committed \/ @.overtaken)]]
        /\ last' = IF committed THEN last
                   ELSE StoreFailed(IF insert THEN "user" ELSE "none",
                                    IF insert /\ ~EmailUnique(users, email)
                                    THEN "IntegrityError"
                                    ELSE "OperationalError")
  /\ UNCHANGED <<queue, sent, responded, worker, arg, out>>

\* lines 90-92: process_pdf_job.delay, then the response
analyze_financial_document_enqueue ==
  /\ req.pc = "stored"
  /\ queue' = [queue EXCEPT ![req.job] = @ + 1]
  /\ sent' = sent + 1
  /\ responded' = responded \cup {req.job}
  /\ req' = IdleRequest
  /\ last' = Http("POST", 200)
  /\ UNCHANGED <<users, jobs, analyses, worker, reading, arg, out>>

\* lines 90, 93-94: delay raises (broker unreachable): HTTP 500, the job row
\* is already committed
analyze_financial_document_enqueue_fails ==
  /\ req.pc = "stored"
  /\ req' = IdleRequest
  /\ last' = Http("POST", 500)
  /\ UNCHANGED <<users, jobs, analyses, queue, sent, responded, worker, reading, arg, out>>

\* ---------------------------------------------- GET /result/{job_id} (main.py)
\* the response for job id j in the committed store
GetResult(j) ==
  IF j \notin DOMAIN jobs
  THEN [code |-> 404, status |-> None, error |-> None, result |-> NoResult]
  ELSE IF jobs[j].status # "done"
  THEN [code |-> 200, status |-> jobs[j].status, error |-> jobs[j].error,
        result |-> NoResult]
  ELSE LET rows == {a \in analyses : a.job_id = j}
       IN [code |-> 200, status |-> "done", error |-> None,
           result |-> IF rows = {} THEN NoResult
                      ELSE (CHOOSE a \in rows : TRUE).result]

get_result(j) ==
  /\ last' = Http("GET", GetResult(j).code)
  /\ UNCHANGED <<users, jobs, analyses, queue, sent, responded, worker, req, reading, arg, out>>

\* ------------------------------------------------------ broker (celery_app.py)
\* at-least-once delivery: a task already enqueued is delivered once more
redeliver(j) ==
  /\ j \in responded
  /\ sent + InFlight < MaxSent
  /\ queue' = [queue EXCEPT ![j] = @ + 1]
  /\ sent' = sent + 1
  /\ UNCHANGED <<users, jobs, analyses, responded, worker, req, last, reading, arg, out>>

\* a task message naming a job id that has no row in the store
send_unknown ==
  /\ sent + InFlight < MaxSent
  /\ queue' = [queue EXCEPT ![UnknownJob] = @ + 1]
  /\ sent' = sent + 1
  /\ UNCHANGED <<users, jobs, analyses, responded, worker, req, last, reading, arg, out>>

\* --------------------------------------- process_pdf_job (tasks_worker.py)
\* mutant: the guard on a missing row is dropped
job_found_always(j) == TRUE

\* line 11-12: job = session.get(Job, job_id); if not job
job_found(j) == j \in DOMAIN jobs

\* lines 31-32
record_success == [status |-> "done", error |-> None]

\* lines 37-38
record_failure(msg) == [status |-> "error", error |-> msg]

\* the UPDATE the session flushes: the attributes whose value differs from
\* the one loaded
flush_job(row, seen, target) ==
  [row EXCEPT !.status = IF target.status # seen.status THEN target.status ELSE @,
              !.error = IF target.error # seen.error THEN target.error ELSE @]

\* which capability of the analysis went wrong in an invocation
Fault(doc, mock, reply, crew) ==
  IF ~doc.extractable THEN "extraction"
  ELSE IF crew = "fail" THEN "delegation"
  ELSE IF mock THEN "none"
  ELSE IF reply.kind = "callfailed" THEN "call"
  ELSE IF reply.action \notin Actions \/ reply.confidence \notin 0..MaxConfidence
       THEN "validation"
  ELSE "none"

\* line 16: what run_analysis can hand to the task, over every document, flag
\* setting and behaviour of the model and the crew
AnalysisRuns ==
  { [o |-> run_analysis(doc, mock, reply, crew),
     fault |-> Fault(doc, mock, reply, crew)] :
      doc \in Docs, mock \in BOOLEAN, reply \in Replies, crew \in CrewModes }

\* lines 10-13: a worker takes a task message and loads the job; without a
\* row it returns, and the empty transaction commits
process_pdf_job_load(w, j) ==
  /\ worker[w].pc = "idle"
  /\ queue[j] > 0
  /\ queue' = [queue EXCEPT ![j] = @ - 1]
  /\ worker' = [worker EXCEPT ![w] =
       IF job_found(j)
       THEN [pc |-> "loaded", job |-> j,
             seen |-> IF j \in DOMAIN jobs
                      THEN [status |-> jobs[j].status, error |-> jobs[j].error]
                      ELSE [status |-> "pending", error |-> None]]
       ELSE IdleWorker]
  /\ last' = IF job_found(j) THEN last ELSE TaskResult(j, "none", "notfound")
  /\ UNCHANGED <<users, jobs, analyses, sent, responded, req, reading, arg, out>>

\* lines 15-40, then session_scope's commit (db.py 26-31): the analysis runs,
\* the session is flushed and committed; a commit that raises is rolled back
\* and the exception leaves the task
process_pdf_job_run(w, run, storeOk) ==
  /\ worker[w].pc = "loaded"
  /\ LET j == worker[w].job
         seen == worker[w].seen
         o == run.o
         target == IF o.ok THEN record_success ELSE record_failure(o.msg)
         row == IF j \in DOMAIN jobs THEN jobs[j]
                ELSE [status |-> "pending", error |-> None,
                      user_id |-> 0, email |-> None]
         dirty == o.ok \/ target # seen
         inserted == IF o.ok
                     THEN {[id |-> NewAnalysisId, job_id |-> j, result |-> o.result,
                            tx |-> IF target.status # seen.status
                                   THEN target.status ELSE "unchanged"]}
                     ELSE {}
         post == [users |-> users,
                  jobs |-> (j :> flush_job(row, seen, target)) @@ jobs,
                  analyses |-> analyses \cup inserted]
         committed == /\ o.ok => JobIdUnique(analyses, j)
                      /\ dirty => storeOk
         db == session_scope(Store, post, committed)
     IN /\ users' = db.users
        /\ jobs' = db.jobs
        /\ analyses' = db.analyses
        /\ worker' = [worker EXCEPT ![w] = IdleWorker]
        /\ last' = TaskResult(UnknownJob, run.fault,
                     IF o.ok /\ ~JobIdUnique(analyses, j) THEN "IntegrityError"
                     ELSE IF ~committed THEN "OperationalError"
                     ELSE IF o.ok THEN "ok" ELSE "error")
  /\ UNCHANGED <<queue, sent, responded, req, reading, arg, out>>

\* ------------------------------------------------------------ specification
Next ==
  \/ \E email \in Emails \cup {None} : analyze_financial_document_receive(email)
  \/ \E email \in Emails \cup {None}, storeOk \in BOOLEAN :
       analyze_financial_document_store(email, storeOk)
  \/ analyze_financial_document_enqueue
  \/ analyze_financial_document_enqueue_fails
  \/ \E j \in TaskIds : get_result(j)
  \/ \E j \in JobIds : redeliver(j)
  \/ send_unknown
  \/ \E w \in Workers, j \in TaskIds : process_pdf_job_load(w, j)
  \/ \E w \in Workers, run \in AnalysisRuns, storeOk \in BOOLEAN :
        process_pdf_job_run(w, run, storeOk)

Spec == Init /\ [][Next]_vars

\* a worker process takes a waiting task and runs the task it took to its end
Fairness ==
  \A w \in Workers :
    /\ WF_vars(\E j \in TaskIds : process_pdf_job_load(w, j))
    /\ WF_vars(\E run \in AnalysisRuns, storeOk \in BOOLEAN :
                  process_pdf_job_run(w, run, storeOk))

FairSpec == Spec /\ Fairness

\* ------------------------------------------- the engine's functions, alone
\* the variables of the service, which a call of a function leaves alone
service ==
  <<users, jobs, analyses, queue, sent, responded, worker, req, reading, last>>

\* task.py: the external model capabilities run_analysis invokes: the crew
\* (line 273) when CREWAI_ENABLED is "1", whatever MOCK_LLM is, and the
\* language-model client (lines 214, 232) when MOCK_LLM is not "1"
external_calls(doc, mock, reply, crew) ==
  IF ~extract_text_from_pdf_bytes(doc).ok THEN {}
  ELSE (IF crew # "off" THEN {"crew"} ELSE {})
       \cup (IF crew # "fail" /\ ~mock THEN {"llm"} ELSE {})

\* the error a message reports: line 246 wraps whatever the try block raised,
\* the API error and the validation error alike, as
\* RuntimeError("Model call failed: ...")
ErrorKind(msg) ==
  IF msg \in {ModelCallFailedMsg(ApiError), ModelCallFailedMsg(ValidationError)}
  THEN "Model call failed"
  ELSE msg

\* words of financial prose in mixed case, a blank, and a neutral letter
Words ==
  { <<"G", "r", "e", "w">>, <<"U", "P">>, <<" ">>,
    <<"M", "a", "r", "g", "i", "n">>, <<"b", "P", "S">>, <<"x">> }

RECURSIVE Texts(_)
Texts(n) ==
  IF n = 0 THEN {<< >>}
  ELSE Texts(n - 1) \cup {t \o w : t \in Texts(n - 1), w \in Words}

MockInputs == {[fn |-> "_mock_result", text |-> t] : t \in Texts(MaxWords)}

apply_mock_result ==
  /\ arg.fn = "_mock_result"
  /\ ~out.done
  /\ out' = [done |-> TRUE, ret |-> mock_analysis(arg.text)]
  /\ UNCHANGED <<service, arg>>

\* a model reply: prose or a fence, then a body over the characters the scan
\* distinguishes, then the end of a string and an object, a fence or prose
Prefixes ==
  { << >>, <<"a", " ">>, <<"bq", "bq", "bq", "a">>, <<" ", "bq", "bq", "bq">> }
Suffixes ==
  { << >>, <<"bq", "bq", "bq">>, <<"\"", "}">>, <<"\"", "}", " ", "a">>, <<"}", " ", "bq", "bq", "bq", " ">> }
BodyChars == {"{", "}", "\"", "\\", "a"}

RECURSIVE Bodies(_)
Bodies(n) ==
  IF n = 0 THEN {<< >>}
  ELSE Bodies(n - 1) \cup {b \o <<c>> : b \in Bodies(n - 1), c \in BodyChars}

ExtractInputs ==
  { [fn |-> "_extract_json_str", text |-> p \o b \o x] :
      p \in Prefixes, b \in Bodies(MaxBody), x \in Suffixes }

apply_extract_json_str ==
  /\ arg.fn = "_extract_json_str"
  /\ ~out.done
  /\ out' = [done |-> TRUE, ret |-> _extract_json_str(arg.text)]
  /\ UNCHANGED <<service, arg>>

\* what extract_text of one page does: raises, returns None, or a text
PageOutcomes ==
  { [kind |-> "raise", text |-> << >>],
    [kind |-> "none", text |-> << >>],
    [kind |-> "text", text |-> << >>],
    [kind |-> "text", text |-> <<"a">>],
    [kind |-> "text", text |-> <<"a", Surrogate>>] }

RECURSIVE PageSeqs(_)
PageSeqs(n) ==
  IF n = 0 THEN {<< >>}
  ELSE PageSeqs(n - 1) \cup {ps \o <<pg>> : ps \in PageSeqs(n - 1), pg \in PageOutcomes}

\* what a capability does with a document: fails as a whole, or opens it
Capabilities ==
  {[opened |-> FALSE, pages |-> << >>]}
  \cup {[opened |-> TRUE, pages |-> ps] : ps \in PageSeqs(MaxPages)}

PdfInputs ==
  { [fn |-> "extract_text_from_pdf_bytes", primary |-> a, fallback |-> b] :
      a \in Capabilities, b \in Capabilities }

apply_extract_text_from_pdf_bytes ==
  /\ arg.fn = "extract_text_from_pdf_bytes"
  /\ ~out.done
  /\ out' = [done |-> TRUE, ret |-> pdf_extraction(arg.primary, arg.fallback)]
  /\ UNCHANGED <<service, arg>>

RunInputs ==
  { [fn |-> "run_analysis", doc |-> doc, mock |-> mock, reply |-> reply,
     crew |-> crew] :
      doc \in Docs, mock \in BOOLEAN, reply \in Replies, crew \in CrewModes }

apply_run_analysis ==
  /\ arg.fn = "run_analysis"
  /\ ~out.done
  /\ out' = [done |-> TRUE,
             ret |-> run_analysis(arg.doc, arg.mock, arg.reply, arg.crew),
             calls |-> external_calls(arg.doc, arg.mock, arg.reply, arg.crew)]
  /\ UNCHANGED <<service, arg>>

FnInputs == RunInputs \cup MockInputs \cup ExtractInputs \cup PdfInputs

FnInit ==
  /\ users = {}
  /\ jobs = << >>
  /\ analyses = {}
  /\ queue = [t \in TaskIds |-> 0]
  /\ sent = 0
  /\ responded = {}
  /\ worker = [w \in Workers |-> IdleWorker]
  /\ req = IdleRequest
  /\ reading = [e \in Emails \cup {None} |-> [n |-> 0, overtaken |-> FALSE]]
  /\ last = Http("none", 0)
  /\ arg \in FnInputs
  /\ out = NoOut

FnNext ==
  \/ apply_run_analysis
  \/ apply_mock_result
  \/ apply_extract_json_str
  \/ apply_extract_text_from_pdf_bytes

FnSpec == FnInit /\ [][FnNext]_vars

\* ------------------------------------------------------------------ claims
HasAnalysis(j) == \E a \in analyses : a.job_id = j
Terminal(j) == j \in DOMAIN jobs /\ jobs[j].status \in {"done", "error"}
\* the step in which worker w ends the invocation it is in
Returns(w) == worker[w].pc = "loaded" /\ worker'[w].pc = "idle"
\* str(e) of the exception run_analysis raises for a fault
FaultMsg(fault) ==
  IF fault = "extraction" THEN ExtractionMsg
  ELSE IF fault = "delegation" THEN CrewMsg
  ELSE IF fault = "call" THEN "Model call failed: api error"
  ELSE "Model call failed: validation error"

\* C1: a job's status changes only out of pending; once done or error, no
\* later invocation of process_pdf_job changes it.
C1_StatusTerminal ==
  [][\A j \in DOMAIN jobs :
       jobs[j].status # "pending" => jobs'[j].status = jobs[j].status]_vars

\* C2: the committed store holds at most one Analysis row per job id,
\* however often and however concurrently the job id is delivered.
C2_OneAnalysisPerJob ==
  \A a, b \in analyses : a.job_id = b.job_id => a = b

\* an invocation whose analysis succeeded found a row for its job at commit
C2_Witness ==
  /\ last.op = "task" /\ last.ret = "IntegrityError" /\ last.fault = "none"
  /\ \E j \in DOMAIN jobs : HasAnalysis(j)

\* C3: every invocation of process_pdf_job hands a result value ({ok} or
\* {error}) to the queue; no exception leaves the task.
C3_NeverRaises ==
  last.op = "task" => last.ret \in {"ok", "error", "notfound"}

\* C4: an invocation that loaded a pending job and whose extraction, model
\* call or validation failed commits status error with the exception's
\* message and creates no Analysis row.
C4_FailureRecorded ==
  [][\A w \in Workers :
       (Returns(w) /\ worker[w].seen.status = "pending" /\ last'.fault # "none")
       => /\ jobs'[worker[w].job].status = "error"
          /\ jobs'[worker[w].job].error = FaultMsg(last'.fault)
          /\ analyses' = analyses]_vars

\* C5: in every committed state a job with status done has its Analysis row
\* (GET /result never answers done with a null result), and every Analysis
\* row was committed together with its job's status update.
C5_SuccessAtomic ==
  /\ \A j \in DOMAIN jobs :
       jobs[j].status = "done"
       => HasAnalysis(j) /\ GetResult(j).result # NoResult
  /\ \A a \in analyses :
       /\ a.tx = "done"
       /\ a.job_id \in DOMAIN jobs
       /\ jobs[a.job_id].status # "pending"

\* a success was recorded, and GET /result serves it
C5_Witness ==
  /\ last.op = "task" /\ last.ret = "ok"
  /\ \E j \in DOMAIN jobs :
       GetResult(j).status = "done" /\ GetResult(j).result # NoResult

\* C6: every job that has an Analysis row has status done.
C6_AnalysisOnlyForDone ==
  \A a \in analyses : a.job_id \in DOMAIN jobs /\ jobs[a.job_id].status = "done"

\* C7: every job whose task has been enqueued eventually has status done or
\* error.
C7_EventuallyTerminal ==
  \A j \in JobIds : [](j \in responded => <>Terminal(j))

\* C8: an invocation for a job id without a row returns job-not-found, never
\* enters the analysis, and leaves every user, job and analysis row unchanged.
C8_NotFoundNoOp ==
  [][\A j \in TaskIds :
       (queue'[j] < queue[j] /\ j \notin DOMAIN jobs)
       => /\ last' = TaskResult(j, "none", "notfound")
          /\ worker' = worker
          /\ users' = users /\ jobs' = jobs /\ analyses' = analyses]_vars

\* a task for an id without a row was taken and answered
C8_Witness ==
  /\ last.op = "task" /\ last.ret = "notfound"
  /\ last.job \notin DOMAIN jobs
  /\ \A w \in Workers : worker[w].pc = "idle"

\* C9: the job row is committed before its task is enqueued and before the
\* response: a responded job id is never answered 404 by GET /result, and no
\* task enqueued by POST /analyze takes the job-not-found path.
C9_CommittedBeforeEnqueue ==
  /\ \A j \in responded :
       /\ GetResult(j).code = 200
       /\ GetResult(j).status \in {"pending", "done", "error"}
  /\ \A j \in JobIds : queue[j] > 0 => j \in DOMAIN jobs
  /\ (last.op = "task" /\ last.ret = "notfound") => last.job \notin responded

\* a responded job was polled while a worker held its task
C9_Witness ==
  /\ last = Http("GET", 200)
  /\ \E w \in Workers :
       worker[w].pc = "loaded" /\ worker[w].job \in responded

\* C10: there is at most one user row per email, and every job created by a
\* request carrying an email references the id of that email's row.
C10_UserIdempotentByEmail ==
  /\ \A u, v \in users : u.email = v.email => u = v
  /\ \A j \in DOMAIN jobs :
       jobs[j].email # None
       => \E u \in users : u.email = jobs[j].email /\ jobs[j].user_id = u.id

\* two requests carried the same email
C10_Witness ==
  \E i, j \in DOMAIN jobs :
    i # j /\ jobs[i].email # None /\ jobs[i].email = jobs[j].email

\* C11: a job's error field is non-null exactly when its status is error.
C11_ErrorIffStatusError ==
  \A j \in DOMAIN jobs : (jobs[j].error # None) <=> (jobs[j].status = "error")

\* C17: when the commit of an invocation's transaction raises and is rolled
\* back, the job is then marked error in a fresh transaction: the invocation
\* does not end with the job still pending.
C17_StoreFailureMarksError ==
  [][\A w \in Workers :
       (Returns(w) /\ last'.ret \in {"OperationalError", "IntegrityError"})
       => jobs'[worker[w].job].status # "pending"]_vars

\* C18: of two invocations that loaded the same pending job, only one
\* mutates it: the invocation that commits after the job has left pending
\* changes neither the job row nor the analyses.
C18_SingleMutator ==
  [][\A w \in Workers :
       (/\ Returns(w)
        /\ worker[w].seen.status = "pending"
        /\ jobs[worker[w].job].status # "pending")
       => /\ jobs'[worker[w].job] = jobs[worker[w].job]
          /\ analyses' = analyses]_vars

\* keyword k occurs in text t at position i, letters compared without case
OccursAt(k, t, i) ==
  /\ i + Len(k) - 1 <= Len(t)
  /\ \A j \in 1..Len(k) :
       \/ t[i + j - 1] = k[j]
       \/ <<t[i + j - 1], k[j]>> \in
            {<<"G", "g">>, <<"U", "u">>, <<"P", "p">>, <<"M", "m">>,
             <<"B", "b">>, <<"S", "s">>}
GrowthIn(t) == \E k \in GrowthKeywords, i \in 1..Len(t) : OccursAt(k, t, i)
MarginIn(t) == \E k \in MarginKeywords, i \in 1..Len(t) : OccursAt(k, t, i)

\* C12: the mock recommendation is buy when a growth and a margin keyword
\* occur in the lower-cased text, hold when only a growth keyword occurs,
\* sell when no growth keyword occurs; confidence is 65; one risk and one
\* insight are returned.
C12_MockDecisionTable ==
  (arg.fn = "_mock_result" /\ out.done)
  => /\ out.ret.recommendation.action =
          (IF GrowthIn(arg.text) /\ MarginIn(arg.text) THEN "buy"
           ELSE IF GrowthIn(arg.text) THEN "hold" ELSE "sell")
     /\ out.ret.recommendation.confidence = MockConfidence
     /\ Len(out.ret.risks) = 1
     /\ Len(out.ret.insights) = 1

\* a margin keyword in upper case without any growth keyword gave sell
C12_Witness ==
  /\ arg.fn = "_mock_result" /\ out.done
  /\ MarginIn(arg.text) /\ ~GrowthIn(arg.text)
  /\ \E i \in 1..Len(arg.text) : arg.text[i] = "S"
  /\ out.ret.recommendation.action = "sell"

\* C13: a model response with a confidence outside 0..100 or an action
\* outside buy/hold/sell is never accepted or clamped: the invocation that
\* received it leaves the job in status error and adds no Analysis row, and
\* no Analysis row ever holds such a value.
C13_InvalidNeverAccepted ==
  [][/\ \A w \in Workers :
          (Returns(w) /\ last'.fault = "validation")
          => /\ jobs'[worker[w].job].status = "error"
             /\ analyses' = analyses
     /\ \A a \in analyses' :
          /\ a.result.action \in Actions
          /\ a.result.confidence \in 0..MaxConfidence]_vars

\* where the scan from position first stands before character i: outside a
\* string literal, inside one, or inside one just after a backslash
RECURSIVE Mode(_, _, _)
Mode(t, first, i) ==
  IF i = first THEN "out"
  ELSE LET m == Mode(t, first, i - 1)
           c == t[i - 1]
       IN CASE m = "out" -> (IF c = "\"" THEN "in" ELSE "out")
            [] m = "in" -> (IF c = "\\" THEN "esc" ELSE IF c = "\"" THEN "out" ELSE "in")
            [] m = "esc" -> "in"
\* brace depth after character i, braces inside string literals not counted
Depth(t, first, i) ==
  Cardinality({p \in first..i : t[p] = "{" /\ Mode(t, first, p) = "out"})
  - Cardinality({p \in first..i : t[p] = "}" /\ Mode(t, first, p) = "out"})
FirstBrace(t) == CHOOSE i \in 1..Len(t) : t[i] = "{" /\ \A j \in 1..(i - 1) : t[j] # "{"
\* the positions at which depth is back at zero
Closings(t) == {e \in FirstBrace(t)..Len(t) : Depth(t, FirstBrace(t), e) = 0}
FirstClosing(t) == CHOOSE e \in Closings(t) : \A f \in Closings(t) : e <= f
HasBrace(t) == \E i \in 1..Len(t) : t[i] = "{"

\* C14 as stated: for every blob that contains an opening brace,
\* _extract_json_str returns the substring from the first opening brace to
\* the closing brace at which depth first returns to zero.
C14_ExtractsBalancedObject ==
  (arg.fn = "_extract_json_str" /\ out.done /\ HasBrace(arg.text))
  => /\ Closings(arg.text) # {}
     /\ out.ret = SubSeq(arg.text, FirstBrace(arg.text), FirstClosing(arg.text))

\* C14 amended: when depth returns to zero the result is that substring;
\* when it never does, the result is the blob without the blanks and
\* backticks around it, prose and the open object included.
C14_ExtractsBalancedOrWhole ==
  (arg.fn = "_extract_json_str" /\ out.done /\ HasBrace(arg.text))
  => IF Closings(arg.text) # {}
     THEN out.ret = SubSeq(arg.text, FirstBrace(arg.text), FirstClosing(arg.text))
     ELSE \E a \in 1..FirstBrace(arg.text), b \in FirstBrace(arg.text)..Len(arg.text) :
            /\ out.ret = SubSeq(arg.text, a, b)
            /\ \A i \in (1..(a - 1)) \cup ((b + 1)..Len(arg.text)) :
                 arg.text[i] \in Whitespace \cup {Backtick}
            /\ out.ret[1] \notin Whitespace
            /\ out.ret[Len(out.ret)] \notin Whitespace

\* an object whose string literal holds an escaped quote was cut out of the
\* fence and the prose around it
C14_Witness ==
  /\ arg.fn = "_extract_json_str" /\ out.done
  /\ Len(arg.text) > 10
  /\ SubSeq(arg.text, 1, 3) = <<Backtick, Backtick, Backtick>>
  /\ out.ret = <<"{", "\"", "\\", "\"", "\"", "}">>

\* C15: the delegation step does not affect the outcome: whatever the crew
\* setting and behaviour, run_analysis hands back what it hands back for
\* the same document, flag and model behaviour with delegation disabled.
C15_DelegationNoEffect ==
  (arg.fn = "run_analysis" /\ out.done)
  => out.ret = run_analysis(arg.doc, arg.mock, arg.reply, "off")

\* C16: with the deterministic-mock flag on, run_analysis invokes no
\* external model capability, for every setting of the other flags, and its
\* result does not depend on anything but the document.
C16_MockNoExternalCalls ==
  (arg.fn = "run_analysis" /\ out.done /\ arg.mock)
  => /\ out.calls = {}
     /\ \A reply \in Replies :
          out.ret = run_analysis(arg.doc, TRUE, reply, arg.crew)

\* C19: a response that fails validation is reported with an error distinct
\* from the error of a failed model call, and is not replaced by a mock
\* result.
C19_InvalidOutputDistinct ==
  (/\ arg.fn = "run_analysis" /\ out.done
   /\ arg.doc.extractable /\ ~arg.mock /\ arg.crew # "fail"
   /\ arg.reply.kind = "reply" /\ ~model_validate_json(arg.reply))
  => /\ ~out.ret.ok
     /\ ErrorKind(out.ret.msg)
          # ErrorKind(run_analysis(arg.doc, arg.mock, CallFailed, arg.crew).msg)

\* the text of the pages of a capability, one after the other with a
\* newline between two pages; a page that failed or has no text is empty
PageLen(cap, i) == IF cap.pages[i].kind = "text" THEN Len(cap.pages[i].text) ELSE 0
RECURSIVE PageStart(_, _)
PageStart(cap, i) ==
  IF i = 1 THEN 0 ELSE PageStart(cap, i - 1) + PageLen(cap, i - 1) + 1
IsJoinOf(text, cap, char(_)) ==
  LET n == Len(cap.pages)
  IN /\ Len(text) = (IF n = 0 THEN 0 ELSE PageStart(cap, n) + PageLen(cap, n))
     /\ \A i \in 1..n :
          /\ \A k \in 1..PageLen(cap, i) :
               text[PageStart(cap, i) + k] = char(cap.pages[i].text[k])
          /\ i < n => text[PageStart(cap, i) + PageLen(cap, i) + 1] = Newline
Same(c) == c
Encodable(c) == IF c = Surrogate THEN "?" ELSE c
\* raise exactly when both capabilities fail as a whole, the fallback tried
\* exactly when the primary fails as a whole, pages the count of the
\* capability that opened the document
ExtractionFrame ==
  /\ out.ret.raised <=> (~arg.primary.opened /\ ~arg.fallback.opened)
  /\ out.ret.tried[1] = "pypdf"
  /\ (\E i \in DOMAIN out.ret.tried : out.ret.tried[i] = "pdfplumber")
       <=> ~arg.primary.opened
  /\ ~out.ret.raised
       => out.ret.pages =
            Len(IF arg.primary.opened THEN arg.primary.pages ELSE arg.fallback.pages)

\* C20 as stated: extract_text_from_pdf_bytes raises only when both
\* capabilities fail entirely, tries the fallback exactly when the primary
\* fails as a whole, and otherwise returns the page count and the
\* newline-join of the per-page texts, a failed page counting as empty.
C20_ExtractionPartialFailure ==
  (arg.fn = "extract_text_from_pdf_bytes" /\ out.done)
  => /\ ExtractionFrame
     /\ ~out.ret.raised
          => IsJoinOf(out.ret.text,
                      IF arg.primary.opened THEN arg.primary ELSE arg.fallback,
                      Same)

\* C20 amended: the text is that newline-join with every character UTF-8
\* cannot encode replaced by a question mark.
C20_ExtractionNormalized ==
  (arg.fn = "extract_text_from_pdf_bytes" /\ out.done)
  => /\ ExtractionFrame
     /\ ~out.ret.raised
          => IsJoinOf(out.ret.text,
                      IF arg.primary.opened THEN arg.primary ELSE arg.fallback,
                      Encodable)

\* the primary failed as a whole and the fallback read a document whose
\* first page raised and whose second page has text
C20_Witness ==
  /\ arg.fn = "extract_text_from_pdf_bytes" /\ out.done
  /\ ~arg.primary.opened /\ arg.fallback.opened
  /\ Len(arg.fallback.pages) = 2
  /\ arg.fallback.pages[1].kind = "raise"
  /\ out.ret.pages = 2
  /\ out.ret.text = <<Newline, "a", "?">>

\* the step in which the transaction of a POST /analyze raises
StoreRaises ==
  /\ \E e \in DOMAIN reading : reading'[e].n < reading[e].n
  /\ req'.pc = "idle"

\* C21: a transaction out of which an exception escapes leaves none of its
\* writes in the store: neither the transaction of POST /analyze (no user
\* row of the request survives) nor the transaction of process_pdf_job.
C21_AllOrNothing ==
  [][/\ StoreRaises
          => /\ last'.op = "POST" /\ last'.code = 500
             /\ users' = users /\ jobs' = jobs /\ analyses' = analyses
     /\ \A w \in Workers :
          (Returns(w) /\ last'.ret \in {"OperationalError", "IntegrityError"})
          => users' = users /\ jobs' = jobs /\ analyses' = analyses]_vars

\* a request with an unseen email had its user row flushed when its
\* transaction raised: HTTP 500, and the store holds no row of it
C21_Witness ==
  /\ last = StoreFailed("user", "OperationalError")
  /\ users = {}
  /\ jobs = << >>

\* C22: every job with status pending has a task for its id: in the queue,
\* being executed by a worker, or about to be enqueued by the request that
\* has just committed the job.
C22_NoOrphanPending ==
  \A j \in DOMAIN jobs :
    jobs[j].status = "pending"
    => \/ queue[j] > 0
       \/ \E w \in Workers : worker[w].pc = "loaded" /\ worker[w].job = j
       \/ req.pc = "stored" /\ req.job = j

\* C23: requests of POST /analyze that carry the same unseen email and are
\* in flight together do not fail because of each other: no request is
\* answered with the violation of the unique email, and the request that
\* commits after the other has its job reference the one user row of the
\* email, as every job of that email does.
C23_ConcurrentSameEmail ==
  /\ last.op = "POST" => last.ret # "IntegrityError"
  /\ (req.pc = "stored" /\ req.raced)
     => /\ req.job \in DOMAIN jobs
        /\ jobs[req.job].email # None
        /\ Cardinality({u \in users : u.email = jobs[req.job].email}) = 1
        /\ \A u \in users :
             u.email = jobs[req.job].email => jobs[req.job].user_id = u.id
        /\ \A i \in DOMAIN jobs :
             jobs[i].email = jobs[req.job].email
             => jobs[i].user_id = jobs[req.job].user_id

\* two requests with the same unseen email were in flight together; the
\* first was answered {job_id, pending} and the second has committed its job
C23_Witness ==
  /\ req.pc = "stored" /\ req.raced
  /\ Cardinality(users) = 1
  /\ Cardinality(DOMAIN jobs) = 2
  /\ \E i \in responded : i # req.job /\ jobs[i].email = jobs[req.job].email
====
